---- MODULE Spec2Model ----
(***************************************************************************)
(* Cropz: the soil-texture-by-feel wizard (SoilTextureWizard component),   *)
(* its classifier predictSoilTexture, and the part of the dashboard that   *)
(* mounts the wizards and takes their results into the lands.              *)
(*                                                                         *)
(* The wizard keeps one piece of React state, `answers`; the step shown    *)
(* and the prediction are recomputed from it on every render.  Two wizard  *)
(* instances exist in the dashboard (create flow and edit flow), each with *)
(* its own `answers`.                                                      *)
(***************************************************************************)
EXTENDS Integers, FiniteSets, Sequences, TLC

----------------------------------------------------------------------------
(* Types of the component *)

\* An optional field that is absent or `undefined`.
Unset == "undefined"

FormsBallAnswer == {"yes", "no"}

RibbonLengthAnswer == {"none", "<1", "1-2", ">2"}

FeelAnswer == {"gritty", "balanced", "smooth"}

WizardStep == {"formsBall", "ribbonLength", "feel", "result"}

\* The three optional fields of Answers, in declaration order.
Fields == <<"formsBall", "ribbonLength", "feel">>

FieldNames == {Fields[i] : i \in 1..Len(Fields)}

\* The option buttons rendered for each question.
Options(f) ==
    CASE f = "formsBall"    -> FormsBallAnswer
      [] f = "ribbonLength" -> RibbonLengthAnswer
      [] f = "feel"         -> FeelAnswer

\* interface Answers: every field optional.
Answers ==
    [formsBall    : FormsBallAnswer \cup {Unset},
     ribbonLength : RibbonLengthAnswer \cup {Unset},
     feel         : FeelAnswer \cup {Unset}]

\* useState<Answers>({})
EmptyAnswers ==
    [formsBall |-> Unset, ribbonLength |-> Unset, feel |-> Unset]

\* The two places the dashboard renders a SoilTextureWizard.
Wizards == {"create", "edit"}

\* A null PredictionResult.
Null == [null |-> TRUE]

Result(t, e) == [texture |-> t, explanation |-> e]

----------------------------------------------------------------------------
(* Pure functions of the answer set *)

predictSoilTextureNoRibbonGuard(answers) ==
    IF answers.formsBall = Unset THEN Null
    ELSE IF answers.formsBall = "no" THEN
        Result("Sand",
               "Soil does not remain in a ball when squeezed, indicating very low clay and organic matter with dominant sand-sized particles.")
    ELSE IF answers.ribbonLength = "none" THEN
        Result("Loamy sand",
               "Forms a ball but no ribbon when pressed; indicates very low clay with some silt and sand providing slight cohesion.")
    ELSE IF answers.feel = Unset THEN Null
    ELSE IF answers.ribbonLength = "<1" THEN
        IF answers.feel = "gritty" THEN
            Result("Sandy loam",
                   "Short ribbon with distinctly gritty feel suggests sand-dominant matrix with modest fines.")
        ELSE IF answers.feel = "smooth" THEN
            Result("Silt loam",
                   "Short ribbon and very smooth, flour-like feel indicates higher silt content.")
        ELSE
            Result("Loam",
                   "Short ribbon with balanced gritty and smooth feel indicates relatively even sand, silt, and clay.")
    ELSE IF answers.ribbonLength = "1-2" THEN
        IF answers.feel = "gritty" THEN
            Result("Sandy clay loam",
                   "Moderate ribbon and gritty feel indicates clay loam with notable sand fraction.")
        ELSE IF answers.feel = "smooth" THEN
            Result("Silty clay loam",
                   "Moderate ribbon with very smooth feel indicates clay loam enriched in silt.")
        ELSE
            Result("Clay loam",
                   "Moderate ribbon and balanced feel suggests a clay loam with mixed particle sizes.")
    ELSE
        IF answers.feel = "gritty" THEN
            Result("Sandy clay",
                   "Long ribbon with gritty feel indicates high clay content with significant sand fraction.")
        ELSE IF answers.feel = "smooth" THEN
            Result("Silty clay",
                   "Long ribbon and very smooth feel indicates high clay with substantial silt fraction.")
        ELSE
            Result("Clay",
                   "Long ribbon and balanced feel indicates high clay content.")

predictSoilTextureSwapped(answers) ==
    IF answers.formsBall = Unset THEN Null
    ELSE IF answers.formsBall = "no" THEN
        Result("Sand",
               "Soil does not remain in a ball when squeezed, indicating very low clay and organic matter with dominant sand-sized particles.")
    ELSE IF answers.ribbonLength = Unset THEN Null
    ELSE IF answers.ribbonLength = "none" THEN
        Result("Loamy sand",
               "Forms a ball but no ribbon when pressed; indicates very low clay with some silt and sand providing slight cohesion.")
    ELSE IF answers.feel = Unset THEN Null
    ELSE IF answers.ribbonLength = "<1" THEN
        IF answers.feel = "gritty" THEN
            Result("Sandy loam",
                   "Short ribbon with distinctly gritty feel suggests sand-dominant matrix with modest fines.")
        ELSE IF answers.feel = "smooth" THEN
            Result("Silt loam",
                   "Short ribbon and very smooth, flour-like feel indicates higher silt content.")
        ELSE
            Result("Loam",
                   "Short ribbon with balanced gritty and smooth feel indicates relatively even sand, silt, and clay.")
    ELSE IF answers.ribbonLength = "1-2" THEN
        IF answers.feel = "gritty" THEN
            Result("Sandy clay loam",
                   "Moderate ribbon and gritty feel indicates clay loam with notable sand fraction.")
        ELSE IF answers.feel = "smooth" THEN
            Result("Clay loam",
                   "Moderate ribbon and balanced feel suggests a clay loam with mixed particle sizes.")
        ELSE
            Result("Silty clay loam",
                   "Moderate ribbon with very smooth feel indicates clay loam enriched in silt.")
    ELSE IF answers.ribbonLength = ">2" THEN
        IF answers.feel = "gritty" THEN
            Result("Sandy clay",
                   "Long ribbon with gritty feel indicates high clay content with significant sand fraction.")
        ELSE IF answers.feel = "smooth" THEN
            Result("Silty clay",
                   "Long ribbon and very smooth feel indicates high clay with substantial silt fraction.")
        ELSE
            Result("Clay",
                   "Long ribbon and balanced feel indicates high clay content.")
    ELSE Null

predictSoilTextureSharedExplanation(answers) ==
    IF answers.formsBall = Unset THEN Null
    ELSE IF answers.formsBall = "no" THEN
        Result("Sand",
               "Soil does not remain in a ball when squeezed, indicating very low clay and organic matter with dominant sand-sized particles.")
    ELSE IF answers.ribbonLength = Unset THEN Null
    ELSE IF answers.ribbonLength = "none" THEN
        Result("Loamy sand",
               "Forms a ball but no ribbon when pressed; indicates very low clay with some silt and sand providing slight cohesion.")
    ELSE IF answers.feel = Unset THEN Null
    ELSE IF answers.ribbonLength = "<1" THEN
        IF answers.feel = "gritty" THEN
            Result("Sandy loam",
                   "Short ribbon with distinctly gritty feel suggests sand-dominant matrix with modest fines.")
        ELSE IF answers.feel = "smooth" THEN
            Result("Silt loam",
                   "Short ribbon and very smooth, flour-like feel indicates higher silt content.")
        ELSE
            Result("Loam",
                   "Short ribbon with balanced gritty and smooth feel indicates relatively even sand, silt, and clay.")
    ELSE IF answers.ribbonLength = "1-2" THEN
        IF answers.feel = "gritty" THEN
            Result("Sandy clay loam",
                   "Moderate ribbon and gritty feel indicates clay loam with notable sand fraction.")
        ELSE IF answers.feel = "smooth" THEN
            Result("Silty clay loam",
                   "Moderate ribbon with very smooth feel indicates clay loam enriched in silt.")
        ELSE
            Result("Clay loam",
                   "Moderate ribbon and balanced feel suggests a clay loam with mixed particle sizes.")
    ELSE IF answers.ribbonLength = ">2" THEN
        IF answers.feel = "gritty" THEN
            Result("Sandy clay",
                   "Long ribbon with gritty feel indicates high clay content with significant sand fraction.")
        ELSE IF answers.feel = "smooth" THEN
            Result("Silty clay",
                   "Long ribbon and very smooth feel indicates high clay with substantial silt fraction.")
        ELSE
            Result("Clay",
                   "Long ribbon with gritty feel indicates high clay content with significant sand fraction.")
    ELSE Null

\* function predictSoilTexture(answers): PredictionResult | null
predictSoilTexture(answers) ==
    IF answers.formsBall = Unset THEN Null
    ELSE IF answers.formsBall = "no" THEN
        Result("Sand",
               "Soil does not remain in a ball when squeezed, indicating very low clay and organic matter with dominant sand-sized particles.")
    ELSE IF answers.ribbonLength = Unset THEN Null
    ELSE IF answers.ribbonLength = "none" THEN
        Result("Loamy sand",
               "Forms a ball but no ribbon when pressed; indicates very low clay with some silt and sand providing slight cohesion.")
    ELSE IF answers.feel = Unset THEN Null
    ELSE IF answers.ribbonLength = "<1" THEN
        IF answers.feel = "gritty" THEN
            Result("Sandy loam",
                   "Short ribbon with distinctly gritty feel suggests sand-dominant matrix with modest fines.")
        ELSE IF answers.feel = "smooth" THEN
            Result("Silt loam",
                   "Short ribbon and very smooth, flour-like feel indicates higher silt content.")
        ELSE
            Result("Loam",
                   "Short ribbon with balanced gritty and smooth feel indicates relatively even sand, silt, and clay.")
    ELSE IF answers.ribbonLength = "1-2" THEN
        IF answers.feel = "gritty" THEN
            Result("Sandy clay loam",
                   "Moderate ribbon and gritty feel indicates clay loam with notable sand fraction.")
        ELSE IF answers.feel = "smooth" THEN
            Result("Silty clay loam",
                   "Moderate ribbon with very smooth feel indicates clay loam enriched in silt.")
        ELSE
            Result("Clay loam",
                   "Moderate ribbon and balanced feel suggests a clay loam with mixed particle sizes.")
    ELSE IF answers.ribbonLength = ">2" THEN
        IF answers.feel = "gritty" THEN
            Result("Sandy clay",
                   "Long ribbon with gritty feel indicates high clay content with significant sand fraction.")
        ELSE IF answers.feel = "smooth" THEN
            Result("Silty clay",
                   "Long ribbon and very smooth feel indicates high clay with substantial silt fraction.")
        ELSE
            Result("Clay",
                   "Long ribbon and balanced feel indicates high clay content.")
    ELSE Null

currentStepNoShortcut(answers) ==
    IF answers.formsBall = Unset THEN "formsBall"
    ELSE IF answers.ribbonLength = Unset THEN "ribbonLength"
    ELSE IF answers.ribbonLength = "none" THEN "result"
    ELSE IF answers.feel = Unset THEN "feel"
    ELSE "result"

currentStepFeelFirst(answers) ==
    IF answers.formsBall = Unset THEN "formsBall"
    ELSE IF answers.formsBall = "no" THEN "result"
    ELSE IF answers.ribbonLength = Unset THEN "ribbonLength"
    ELSE IF answers.feel = Unset THEN "feel"
    ELSE "result"

\* const currentStep = useMemo(..., [answers])
currentStep(answers) ==
    IF answers.formsBall = Unset THEN "formsBall"
    ELSE IF answers.formsBall = "no" THEN "result"
    ELSE IF answers.ribbonLength = Unset THEN "ribbonLength"
    ELSE IF answers.ribbonLength = "none" THEN "result"
    ELSE IF answers.feel = Unset THEN "feel"
    ELSE "result"

\* const prediction = useMemo(() => predictSoilTexture(answers), [answers])
prediction(answers) == predictSoilTexture(answers)

----------------------------------------------------------------------------
(* Mutators of the answer set *)

resetFirstFieldOnly(answers) == [answers EXCEPT !.formsBall = Unset]

\* const reset = () => setAnswers({})
reset(answers) == EmptyAnswers

goBackResultClearsFormsBall(answers) ==
    IF currentStep(answers) = "formsBall" THEN answers
    ELSE IF currentStep(answers) = "ribbonLength" THEN
        [answers EXCEPT !.formsBall = Unset]
    ELSE IF currentStep(answers) = "feel" THEN
        [answers EXCEPT !.ribbonLength = Unset]
    ELSE
        [answers EXCEPT !.formsBall = Unset]

goBackIgnoresResult(answers) ==
    IF currentStep(answers) = "formsBall" THEN answers
    ELSE IF currentStep(answers) = "ribbonLength" THEN
        [answers EXCEPT !.formsBall = Unset]
    ELSE IF currentStep(answers) = "feel" THEN
        [answers EXCEPT !.ribbonLength = Unset]
    ELSE answers

goBackFeelClearsFeel(answers) ==
    IF currentStep(answers) = "formsBall" THEN answers
    ELSE IF currentStep(answers) = "ribbonLength" THEN
        [answers EXCEPT !.formsBall = Unset]
    ELSE IF currentStep(answers) = "feel" THEN
        [answers EXCEPT !.feel = Unset]
    ELSE IF answers.formsBall = "no" THEN
        [answers EXCEPT !.formsBall = Unset]
    ELSE IF answers.ribbonLength = "none" THEN
        [answers EXCEPT !.ribbonLength = Unset]
    ELSE
        [answers EXCEPT !.feel = Unset]

goBackResultClearsRibbon(answers) ==
    IF currentStep(answers) = "formsBall" THEN answers
    ELSE IF currentStep(answers) = "ribbonLength" THEN
        [answers EXCEPT !.formsBall = Unset]
    ELSE IF currentStep(answers) = "feel" THEN
        [answers EXCEPT !.ribbonLength = Unset]
    ELSE IF answers.formsBall = "no" THEN
        [answers EXCEPT !.formsBall = Unset]
    ELSE
        [answers EXCEPT !.ribbonLength = Unset]

\* const goBack = () => { ... }
goBack(answers) ==
    IF currentStep(answers) = "formsBall" THEN answers
    ELSE IF currentStep(answers) = "ribbonLength" THEN
        [answers EXCEPT !.formsBall = Unset]
    ELSE IF currentStep(answers) = "feel" THEN
        [answers EXCEPT !.ribbonLength = Unset]
    ELSE IF answers.formsBall = "no" THEN
        [answers EXCEPT !.formsBall = Unset]
    ELSE IF answers.ribbonLength = "none" THEN
        [answers EXCEPT !.ribbonLength = Unset]
    ELSE
        [answers EXCEPT !.feel = Unset]

OptionRenderedStaysOnFeel(answers, f) ==
    currentStep(answers) = f \/ (f = "feel" /\ currentStep(answers) = "result")

\* {currentStep === f && ( ...option buttons of f... )}
OptionRendered(answers, f) == currentStep(answers) = f

selectOptionUnguarded(answers, f, v) == [answers EXCEPT ![f] = v]

selectOptionClearsRest(answers, f, v) ==
    IF OptionRendered(answers, f)
    THEN [EmptyAnswers EXCEPT ![f] = v]
    ELSE answers

\* The user picks option v of question f.  The button, and with it the
\* handler setAnswers((prev) => ({ ...prev, [f]: v })), exists only while the
\* block of question f is rendered.
selectOption(answers, f, v) ==
    IF OptionRendered(answers, f)
    THEN [answers EXCEPT ![f] = v]
    ELSE answers

stepIndexZeroBased(step) ==
    IF step = "formsBall" THEN 0
    ELSE IF step = "ribbonLength" THEN 1
    ELSE IF step = "feel" THEN 2
    ELSE 3

\* const stepIndex = useMemo(..., [currentStep])
stepIndex(step) ==
    IF step = "formsBall" THEN 1
    ELSE IF step = "ribbonLength" THEN 2
    ELSE IF step = "feel" THEN 3
    ELSE 4

\* {currentStep === "result" && prediction && ( ... Save soil type ... )}
SaveRendered(answers) ==
    currentStep(answers) = "result" /\ prediction(answers) # Null

wizardResultSwappedFields(answers) ==
    [texture     |-> prediction(answers).explanation,
     explanation |-> prediction(answers).texture,
     answers     |-> answers]

\* onComplete({ texture: prediction.texture,
\*              explanation: prediction.explanation, answers })
wizardResult(answers) ==
    [texture     |-> prediction(answers).texture,
     explanation |-> prediction(answers).explanation,
     answers     |-> answers]

----------------------------------------------------------------------------
(* Mapping of a soil texture to the soil type of the scoring request *)

\* The characters of the string literals of the program.
Chars(str) ==
    CASE str = "Sand" ->
            <<"S", "a", "n", "d">>
      [] str = "Loamy sand" ->
            <<"L", "o", "a", "m", "y", " ", "s", "a", "n", "d">>
      [] str = "Sandy loam" ->
            <<"S", "a", "n", "d", "y", " ", "l", "o", "a", "m">>
      [] str = "Silt loam" ->
            <<"S", "i", "l", "t", " ", "l", "o", "a", "m">>
      [] str = "Loam" ->
            <<"L", "o", "a", "m">>
      [] str = "Sandy clay loam" ->
            <<"S", "a", "n", "d", "y", " ", "c", "l", "a", "y", " ", "l", "o", "a", "m">>
      [] str = "Silty clay loam" ->
            <<"S", "i", "l", "t", "y", " ", "c", "l", "a", "y", " ", "l", "o", "a", "m">>
      [] str = "Clay loam" ->
            <<"C", "l", "a", "y", " ", "l", "o", "a", "m">>
      [] str = "Sandy clay" ->
            <<"S", "a", "n", "d", "y", " ", "c", "l", "a", "y">>
      [] str = "Silty clay" ->
            <<"S", "i", "l", "t", "y", " ", "c", "l", "a", "y">>
      [] str = "Clay" ->
            <<"C", "l", "a", "y">>
      [] str = "clay" ->
            <<"c", "l", "a", "y">>
      [] str = "silt" ->
            <<"s", "i", "l", "t">>
      [] str = "sand" ->
            <<"s", "a", "n", "d">>
      [] str = "peat" ->
            <<"p", "e", "a", "t">>
      [] str = "chalk" ->
            <<"c", "h", "a", "l", "k">>
      [] str = "loam" ->
            <<"l", "o", "a", "m">>
      [] str = "" ->
            <<>>
      [] str = "0" ->
            <<"0">>
      [] str = "1" ->
            <<"1">>
      [] str = "2" ->
            <<"2">>
      [] str = "3" ->
            <<"3">>
      [] str = "4" ->
            <<"4">>
      [] str = "Acidic (5.0-5.9)" ->
            <<"A", "c", "i", "d", "i", "c", " ", "(", "5", ".", "0", "-", "5", ".", "9", ")">>
      [] str = "Neutral (6.0-7.3)" ->
            <<"N", "e", "u", "t", "r", "a", "l", " ", "(", "6", ".", "0", "-", "7", ".", "3", ")">>
      [] str = "Alkaline (7.4-8.5)" ->
            <<"A", "l", "k", "a", "l", "i", "n", "e", " ", "(", "7", ".", "4", "-", "8", ".", "5", ")">>
      [] str = "Acidic" ->
            <<"A", "c", "i", "d", "i", "c">>
      [] str = "Neutral" ->
            <<"N", "e", "u", "t", "r", "a", "l">>
      [] str = "Alkaline" ->
            <<"A", "l", "k", "a", "l", "i", "n", "e">>
      [] str = "Basic" ->
            <<"B", "a", "s", "i", "c">>
      [] str = "x2" ->
            <<"x", "2">>
      [] str = "3 kg" ->
            <<"3", " ", "k", "g">>
      [] str = "abc" ->
            <<"a", "b", "c">>
      [] str = "45" ->
            <<"4", "5">>
      [] str = "90.5" ->
            <<"9", "0", ".", "5">>
      [] str = "-91" ->
            <<"-", "9", "1">>
      [] str = "-180" ->
            <<"-", "1", "8", "0">>
      [] str = "181" ->
            <<"1", "8", "1">>
      [] str = "7.25" ->
            <<"7", ".", "2", "5">>

\* The strings of the model.
KnownStrings ==
    {
     "Sand", "Loamy sand", "Sandy loam", "Silt loam",
     "Loam", "Sandy clay loam", "Silty clay loam", "Clay loam",
     "Sandy clay", "Silty clay", "Clay", "clay",
     "silt", "sand", "peat", "chalk",
     "loam", "", "0", "1",
     "2", "3", "4", "Acidic (5.0-5.9)",
     "Neutral (6.0-7.3)", "Alkaline (7.4-8.5)", "Acidic", "Neutral",
     "Alkaline", "Basic", "x2", "3 kg",
     "abc", "45", "90.5", "-91",
     "-180", "181", "7.25"}

\* The string of a sequence of characters.
FromChars(cs) == CHOOSE t \in KnownStrings : Chars(t) = cs

UpperCase ==
    <<"A", "B", "C", "D", "E", "F", "G", "H", "I", "J", "K", "L", "M", "N", "O", "P", "Q", "R", "S", "T", "U", "V", "W", "X", "Y", "Z">>

LowerCase ==
    <<"a", "b", "c", "d", "e", "f", "g", "h", "i", "j", "k", "l", "m", "n", "o", "p", "q", "r", "s", "t", "u", "v", "w", "x", "y", "z">>

\* String.prototype.toLowerCase, on a sequence of characters.
toLowerCase(s) ==
    [i \in 1..Len(s) |->
        IF \E k \in 1..Len(UpperCase) : UpperCase[k] = s[i]
        THEN LowerCase[CHOOSE k \in 1..Len(UpperCase) : UpperCase[k] = s[i]]
        ELSE s[i]]

\* String.prototype.includes, on sequences of characters.
includes(s, sub) ==
    \E i \in 0..(Len(s) - Len(sub)) :
        \A j \in 1..Len(sub) : s[i + j] = sub[j]

mapSoilTypeToBackendSandFirst(soilType) ==
    IF soilType = Unset THEN "null"
    ELSE LET s == toLowerCase(Chars(soilType))
         IN  IF includes(s, Chars("sand")) THEN "sandy"
             ELSE IF includes(s, Chars("clay")) THEN "clay"
             ELSE IF includes(s, Chars("silt")) THEN "silt"
             ELSE IF includes(s, Chars("peat")) THEN "peat"
             ELSE IF includes(s, Chars("chalk")) THEN "chalk"
             ELSE IF includes(s, Chars("loam")) THEN "loam"
             ELSE "null"

\* const mapSoilTypeToBackend = (soilType: string | undefined) => ...
mapSoilTypeToBackend(soilType) ==
    IF soilType = Unset THEN "null"
    ELSE LET s == toLowerCase(Chars(soilType))
         IN  IF includes(s, Chars("clay")) THEN "clay"
             ELSE IF includes(s, Chars("silt")) THEN "silt"
             ELSE IF includes(s, Chars("sand")) THEN "sandy"
             ELSE IF includes(s, Chars("peat")) THEN "peat"
             ELSE IF includes(s, Chars("chalk")) THEN "chalk"
             ELSE IF includes(s, Chars("loam")) THEN "loam"
             ELSE "null"

----------------------------------------------------------------------------
(* The dashboard around the wizards *)

\* useState<string | null>(null): no land.
NullId == 0

\* The number of lands the user creates at most.
MaxLands == 2

\* crypto.randomUUID(): an id no land had before; created is the number of
\* ids drawn so far.
randomUUID(created) == created + 1

\* The four soil health fields of a land.
NutrientFields == {"nitrogen", "phosphorus", "potassium", "pH"}

\* const newLand: Land = { id, name: ..., soilType: result.texture }: the
\* soil health fields are absent.
newLand(id, result) ==
    [id |-> id, soilType |-> result.texture, nitrogen |-> Unset,
     phosphorus |-> Unset, potassium |-> Unset, pH |-> Unset]

ModalChildrenKept(open, state) == state

\* Modal: `if (!open) return null`.  A closed modal renders no children, so
\* React drops the wizard inside and its state; the next mount starts from
\* useState({}) again.  Gives the wizard state after a render.
ModalChildren(open, state) == IF open THEN state ELSE EmptyAnswers

setAnswersShared(all, w, new) == [x \in DOMAIN all |-> new]

\* Each SoilTextureWizard instance owns its useState cell.
setAnswers(all, w, new) == [all EXCEPT ![w] = new]

\* handleSaveSoil: setLands((prev) => [...prev, newLand]).  The name of a
\* land plays no part in what follows and is left out of the record.
handleSaveSoil(lands, id, result) == Append(lands, newLand(id, result))

handleEditWizardCompleteCommits(lands, editLandId, result) ==
    [lands |-> [i \in 1..Len(lands) |->
                    IF lands[i].id = editLandId
                    THEN [lands[i] EXCEPT !.soilType = result.texture]
                    ELSE lands[i]],
     editNewSoilType |-> result.texture]

\* handleEditWizardComplete: setEditNewSoilType(result.texture); the lands
\* are not touched.
handleEditWizardComplete(lands, editLandId, result) ==
    [lands |-> lands, editNewSoilType |-> result.texture]

\* handleSaveEdit: setLands((prev) => prev.map(...)).
handleSaveEdit(lands, editLandId, editNewSoilType) ==
    [i \in 1..Len(lands) |->
        IF lands[i].id = editLandId
        THEN [lands[i] EXCEPT !.soilType =
                IF editNewSoilType # Unset THEN editNewSoilType ELSE @]
        ELSE lands[i]]

\* handleSaveEdit: the children written by update(); the name, which every
\* edit writes, is not part of the records here.
handleSaveEditUpdates(editNewSoilType) ==
    IF editNewSoilType # Unset
    THEN [f \in {"soilType"} |-> editNewSoilType]
    ELSE [f \in {} |-> Unset]

(* The lands in the Realtime Database, under users/${uid}/lands *)

\* set(ref(rtdb, `users/${uid}/lands/${id}`), newLand)
dbSet(db, land) == {r \in db : r.id # land.id} \cup {land}

\* update(ref(rtdb, `users/${uid}/lands/${id}`), updates): writes the children
\* named in updates and no other; a path without a record gets one that has
\* these children alone.
dbUpdate(db, id, updates) ==
    LET old == IF \E r \in db : r.id = id
               THEN CHOOSE r \in db : r.id = id
               ELSE [id |-> id, soilType |-> Unset, nitrogen |-> Unset,
                     phosphorus |-> Unset, potassium |-> Unset, pH |-> Unset]
        child(f) == IF f \in DOMAIN updates THEN updates[f] ELSE old[f]
    IN  {r \in db : r.id # id}
            \cup {[id |-> id, soilType |-> child("soilType"),
                   nitrogen |-> child("nitrogen"),
                   phosphorus |-> child("phosphorus"),
                   potassium |-> child("potassium"), pH |-> child("pH")]}

\* remove(ref(rtdb, `users/${uid}/lands/${activeLandId}`))
dbRemove(db, id) == {r \in db : r.id # id}

\* fetchLands: Object.entries(snap.val()).map(([id, data]) => ({ id, ... })).
\* The children of a snapshot come in key order; the ids of the model are
\* ordered as they were drawn.
RECURSIVE docs(_)
docs(db) ==
    IF db = {} THEN <<>>
    ELSE LET first == CHOOSE r \in db : \A q \in db : r.id <= q.id
         IN  <<first>> \o docs(db \ {first})

\* fetchLands: the updater handed to setActiveLandId.
fetchLandsActive(cur, ds) ==
    IF cur = NullId /\ Len(ds) > 0 THEN ds[1].id
    ELSE IF cur # NullId /\ ~(\E i \in 1..Len(ds) : ds[i].id = cur)
         THEN (IF Len(ds) > 0 THEN ds[1].id ELSE NullId)
    ELSE cur

(* The land view: overview or soil health form *)

\* lands.find((l) => l.id === id); Null for undefined.
find(lands, id) ==
    IF \E i \in 1..Len(lands) : lands[i].id = id
    THEN lands[CHOOSE i \in 1..Len(lands) :
                    /\ lands[i].id = id
                    /\ \A j \in 1..(i - 1) : lands[j].id # id]
    ELSE Null

\* land?.field ?? ""
orEmpty(land, f) ==
    IF land = Null THEN "" ELSE IF land[f] = Unset THEN "" ELSE land[f]

\* The body of the effect on the active land, after its early return.
activeLandEffect(form, activeLandId, lands) ==
    IF activeLandId = NullId THEN form
    ELSE LET land == find(lands, activeLandId)
         IN  [landStep |-> "overview",
              tempNitrogen |-> orEmpty(land, "nitrogen"),
              tempPhosphorus |-> orEmpty(land, "phosphorus"),
              tempPotassium |-> orEmpty(land, "potassium"),
              tempPH |-> orEmpty(land, "pH")]

effectDepsWithLands(oldActive, newActive, oldLands, newLands) ==
    oldActive # newActive \/ oldLands # newLands

\* The dependency array of the effect, [activeLandId]: the effect runs after
\* a render in which activeLandId differs from the render before.
effectDeps(oldActive, newActive, oldLands, newLands) == oldActive # newActive

\* The land view after the render that follows a state change.
afterRender(form, oldActive, newActive, oldLands, newLands) ==
    IF effectDeps(oldActive, newActive, oldLands, newLands)
    THEN activeLandEffect(form, newActive, newLands)
    ELSE form

\* confirmDelete: remaining.length ? remaining[0].id : null
confirmDeleteActive(remaining) ==
    IF Len(remaining) > 0 THEN remaining[1].id ELSE NullId

confirmDeleteDropsFirst(lands, activeLandId) ==
    IF Len(lands) = 0 THEN lands ELSE Tail(lands)

\* confirmDelete: lands.filter((l) => l.id !== activeLandId)
confirmDelete(lands, activeLandId) ==
    SelectSeq(lands, LAMBDA l : l.id # activeLandId)

(* The soil health form *)

\* String.prototype.trim, on a sequence of characters.
trimChars(cs) ==
    LET inked == {i \in 1..Len(cs) : cs[i] # " "}
    IN  IF inked = {} THEN <<>>
        ELSE SubSeq(cs, CHOOSE i \in inked : \A j \in inked : i <= j,
                        CHOOSE i \in inked : \A j \in inked : j <= i)

trim(str) == FromChars(trimChars(Chars(str)))

\* saveNutrientInputs: temp.trim() === "" ? undefined : temp.trim(), for the
\* four inputs.
nutrientInputs(form) ==
    LET value(temp) == IF trim(temp) = "" THEN Unset ELSE trim(temp)
    IN  [nitrogen |-> value(form.tempNitrogen),
         phosphorus |-> value(form.tempPhosphorus),
         potassium |-> value(form.tempPotassium),
         pH |-> value(form.tempPH)]

\* saveNutrientInputs: setLands((prev) => prev.map(...)).
saveNutrientInputs(lands, activeLandId, inputs) ==
    [i \in 1..Len(lands) |->
        IF lands[i].id = activeLandId
        THEN [lands[i] EXCEPT !.nitrogen = inputs.nitrogen,
                              !.phosphorus = inputs.phosphorus,
                              !.potassium = inputs.potassium,
                              !.pH = inputs.pH]
        ELSE lands[i]]

\* saveNutrientInputs: the updates object, which gets the inputs that are
\* not undefined.
saveNutrientInputsUpdates(inputs) ==
    [f \in {g \in NutrientFields : inputs[g] # Unset} |-> inputs[f]]

\* saveNutrientInputs: update() is called if updates has a key.
saveNutrientInputsDb(db, activeLandId, inputs) ==
    IF DOMAIN saveNutrientInputsUpdates(inputs) # {}
    THEN dbUpdate(db, activeLandId, saveNutrientInputsUpdates(inputs))
    ELSE db

(* The recommendation: numbers read from strings *)

\* The number num / scale, and NaN.
Number(num, scale) == [nan |-> FALSE, num |-> num, scale |-> scale]

NaN == [nan |-> TRUE]

Digits == <<"0", "1", "2", "3", "4", "5", "6", "7", "8", "9">>

IsDigit(c) == \E i \in 1..Len(Digits) : Digits[i] = c

DigitValue(c) == (CHOOSE i \in 1..Len(Digits) : Digits[i] = c) - 1

\* The first position from i on that holds no white space.
SkipSpace(cs, i) ==
    CHOOSE j \in i..(Len(cs) + 1) :
        /\ \A k \in i..(j - 1) : cs[k] = " "
        /\ (j > Len(cs) \/ cs[j] # " ")

\* The length of the run of digits that starts at position i.
DigitRun(cs, i) ==
    CHOOSE n \in 0..(Len(cs) + 1 - i) :
        /\ \A k \in i..(i + n - 1) : IsDigit(cs[k])
        /\ (i + n > Len(cs) \/ ~IsDigit(cs[i + n]))

\* The value of the n digits from position i on.
RECURSIVE DigitsValue(_, _, _)
DigitsValue(cs, i, n) ==
    IF n = 0 THEN 0
    ELSE DigitsValue(cs, i, n - 1) * 10 + DigitValue(cs[i + n - 1])

RECURSIVE Power10(_)
Power10(n) == IF n = 0 THEN 1 ELSE 10 * Power10(n - 1)

\* A sign at position i.
SignAt(cs, i) == i <= Len(cs) /\ cs[i] \in {"-", "+"}

Negative(cs, i) == i <= Len(cs) /\ cs[i] = "-"

\* The position after the sign, if there is one at i.
AfterSign(cs, i) == IF SignAt(cs, i) THEN i + 1 ELSE i

\* The length of the run of digits from position j on, none past the end.
RunFrom(cs, j) == IF j > Len(cs) THEN 0 ELSE DigitRun(cs, j)

\* The integer of the n digits from position j on; NaN without a digit.
IntegerFrom(cs, negative, j, n) ==
    IF n = 0 THEN NaN
    ELSE Number(IF negative THEN 0 - DigitsValue(cs, j, n)
                ELSE DigitsValue(cs, j, n), 1)

parseIntAt(cs, i) ==
    IntegerFrom(cs, Negative(cs, i), AfterSign(cs, i),
                RunFrom(cs, AfterSign(cs, i)))

parseIntChars(cs) == parseIntAt(cs, SkipSpace(cs, 1))

\* parseInt(str, 10): white space, a sign, then the longest run of digits;
\* NaN without a digit.
parseInt(str) == parseIntChars(Chars(str))

\* The length of the run of digits after a point at position p.
FractionRun(cs, p) ==
    IF p + 1 <= Len(cs) /\ cs[p] = "." THEN DigitRun(cs, p + 1) ELSE 0

\* The number of n digits from position j on and m digits after the point;
\* NaN without a digit.
DecimalFrom(cs, negative, j, n, m) ==
    IF n = 0 /\ m = 0 THEN NaN
    ELSE Number((IF negative THEN 0 - 1 ELSE 1)
                    * (DigitsValue(cs, j, n) * Power10(m)
                        + DigitsValue(cs, j + n + 1, m)),
                Power10(m))

parseFloatDigits(cs, negative, j, n) ==
    DecimalFrom(cs, negative, j, n, FractionRun(cs, j + n))

parseFloatAt(cs, i) ==
    parseFloatDigits(cs, Negative(cs, i), AfterSign(cs, i),
                     RunFrom(cs, AfterSign(cs, i)))

parseFloatChars(cs) == parseFloatAt(cs, SkipSpace(cs, 1))

\* parseFloat(str): white space, a sign, digits, and a point with digits;
\* NaN without a digit.  Exponents are not read here.
parseFloat(str) == parseFloatChars(Chars(str))

\* x < n and x > n, for a number x that is not NaN.
Less(x, n) == x.num < n * x.scale

Greater(x, n) == x.num > n * x.scale

\* !value, for a string or undefined.
Falsy(v) == v = Unset \/ v = ""

mapPHCategoryToValue(cat) ==
    IF Falsy(cat) THEN Null
    ELSE IF includes(Chars(cat), Chars("Acidic")) THEN Number(55, 10)
    ELSE IF includes(Chars(cat), Chars("Neutral")) THEN Number(67, 10)
    ELSE IF includes(Chars(cat), Chars("Alkaline")) THEN Number(78, 10)
    ELSE Null

handleRecommendChecksSkipsPH(active) ==
    IF Falsy(active.nitrogen) \/ Falsy(active.phosphorus)
        \/ Falsy(active.potassium)
    THEN Null
    ELSE IF parseInt(active.nitrogen).nan \/ parseInt(active.phosphorus).nan
            \/ parseInt(active.potassium).nan
         THEN Null
    ELSE [nitrogen |-> parseInt(active.nitrogen),
          phosphorus |-> parseInt(active.phosphorus),
          potassium |-> parseInt(active.potassium),
          ph |-> mapPHCategoryToValue(active.pH)]

\* handleRecommend, "Ensure required inputs exist" and the parsing after it:
\* the numbers of the request, or Null where the function goes to the form
\* and returns.
handleRecommendChecks(active) ==
    IF Falsy(active.nitrogen) \/ Falsy(active.phosphorus)
        \/ Falsy(active.potassium) \/ Falsy(active.pH)
    THEN Null
    ELSE IF parseInt(active.nitrogen).nan \/ parseInt(active.phosphorus).nan
            \/ parseInt(active.potassium).nan
            \/ mapPHCategoryToValue(active.pH) = Null
         THEN Null
    ELSE [nitrogen |-> parseInt(active.nitrogen),
          phosphorus |-> parseInt(active.phosphorus),
          potassium |-> parseInt(active.potassium),
          ph |-> mapPHCategoryToValue(active.pH)]

handleRecommendRangesNoLongitude(lat, lng) ==
    IF lat.nan \/ lng.nan
    THEN [error |-> "Please enter valid latitude and longitude values"]
    ELSE IF Less(lat, 0 - 90) \/ Greater(lat, 90)
    THEN [error |-> "Latitude must be between -90 and 90"]
    ELSE [error |-> "", latitude |-> lat, longitude |-> lng]

\* handleRecommend, the checks on the parsed coordinates: the coordinates,
\* or the error set before the function returns.
handleRecommendRanges(lat, lng) ==
    IF lat.nan \/ lng.nan
    THEN [error |-> "Please enter valid latitude and longitude values"]
    ELSE IF Less(lat, 0 - 90) \/ Greater(lat, 90)
    THEN [error |-> "Latitude must be between -90 and 90"]
    ELSE IF Less(lng, 0 - 180) \/ Greater(lng, 180)
    THEN [error |-> "Longitude must be between -180 and 180"]
    ELSE [error |-> "", latitude |-> lat, longitude |-> lng]

handleRecommendManualNoLongitudeRange(manualLatitude, manualLongitude) ==
    handleRecommendRangesNoLongitude(parseFloat(manualLatitude),
                                     parseFloat(manualLongitude))

\* handleRecommend, the branch of manual coordinates.
handleRecommendManual(manualLatitude, manualLongitude) ==
    handleRecommendRanges(parseFloat(manualLatitude),
                          parseFloat(manualLongitude))

\* handleRecommend: the soil object of the request body.
handleRecommendSoil(active, checks, latitude, longitude) ==
    [latitude |-> latitude, longitude |-> longitude,
     soil_type |-> (IF mapSoilTypeToBackend(active.soilType) = "null"
                    THEN Unset ELSE mapSoilTypeToBackend(active.soilType)),
     ph |-> checks.ph, nitrogen |-> checks.nitrogen,
     phosphorus |-> checks.phosphorus, potassium |-> checks.potassium]

handleRecommendNoFinally(recommending) == recommending

\* handleRecommend: finally { setRecommending(false) }
handleRecommendFinally(recommending) == FALSE

----------------------------------------------------------------------------
(* State *)

VARIABLES
    answers,            \* answers[w]: the `answers` state of wizard instance w
    last,               \* the operation that produced the current state
    lands,              \* Dashboard: the list of lands
    activeLandId,       \* Dashboard: id of the land shown, or NullId
    createOpen,         \* Dashboard: the create modal is open
    editOpen,           \* Dashboard: the edit modal is open
    editLandId,         \* Dashboard: id of the land being edited, or NullId
    editNewSoilType,    \* Dashboard: the pending soil type of the edit
    deleteOpen,         \* Dashboard: the delete dialog is open
    landStep,           \* Dashboard: "overview" or "nutrients"
    tempNitrogen,       \* Dashboard: the inputs of the soil health form
    tempPhosphorus,
    tempPotassium,
    tempPH,
    recommending,       \* Dashboard: a recommendation is being computed
    locationMode,       \* Dashboard: "auto" or "manual"
    manualLatitude,     \* Dashboard: the coordinate inputs
    manualLongitude,
    locationError,      \* Dashboard: the location error shown, or ""
    db,                 \* the land records of the user in the database
    fetch,              \* the get() of fetchLands in flight, with its snapshot
    created,            \* the number of ids drawn by crypto.randomUUID()
    run,                \* the handleRecommend call in progress
    request,            \* the scoring request sent by that call
    navigated,          \* router.push("/recommendations") was called
    lastKnownLocation   \* window.lastKnownLocation is set

landView ==
    <<landStep, tempNitrogen, tempPhosphorus, tempPotassium, tempPH>>

location == <<locationMode, manualLatitude, manualLongitude, lastKnownLocation>>

recommend == <<recommending, locationError, run, request, navigated>>

persistence == <<db, fetch, created>>

modals == <<createOpen, editOpen, editLandId, editNewSoilType, deleteOpen>>

dashboard ==
    <<lands, activeLandId, modals, landView, location, recommend, persistence>>

vars == <<answers, last, dashboard>>

\* The land view as one value.
Form ==
    [landStep |-> landStep, tempNitrogen |-> tempNitrogen,
     tempPhosphorus |-> tempPhosphorus, tempPotassium |-> tempPotassium,
     tempPH |-> tempPH]

\* The land view of the next state is f.
SetForm(f) ==
    /\ landStep' = f.landStep
    /\ tempNitrogen' = f.tempNitrogen
    /\ tempPhosphorus' = f.tempPhosphorus
    /\ tempPotassium' = f.tempPotassium
    /\ tempPH' = f.tempPH

\* No get() in flight.
NoFetch == [pending |-> FALSE, docs |-> <<>>]

\* No handleRecommend call in progress.
Idle == [at |-> "idle", active |-> Null, checks |-> Null]

\* No scoring request sent.
NoRequest == [sent |-> FALSE]

\* The useState initial values of the land view and of the recommendation.
InitialView ==
    /\ deleteOpen = FALSE
    /\ landStep = "overview"
    /\ tempNitrogen = "" /\ tempPhosphorus = ""
    /\ tempPotassium = "" /\ tempPH = ""
    /\ recommending = FALSE
    /\ locationMode = "auto"
    /\ manualLatitude = "" /\ manualLongitude = ""
    /\ locationError = ""
    /\ run = Idle
    /\ request = NoRequest
    /\ navigated = FALSE

NoOp ==
    [op |-> "mount", w |-> "create", field |-> "-", value |-> "-",
     before |-> EmptyAnswers, afterBack |-> FALSE, result |-> Null]

\* The record of an operation on instance w.  afterBack: the operation
\* before it was a goBack on the same instance that cleared a field.
Op(op, w, f, v, res) ==
    [op |-> op, w |-> w, field |-> f, value |-> v, before |-> answers[w],
     afterBack |-> (last.op = "goBack" /\ last.w = w
                        /\ answers[w] # last.before),
     result |-> res]

\* An operation that looks at nothing.
Nothing == [nothing |-> TRUE]

\* The record of an operation of the dashboard; v holds what the operation
\* found.
DashOp(op, v) ==
    [op |-> op, w |-> "create", field |-> "-", value |-> v,
     before |-> EmptyAnswers, afterBack |-> FALSE, result |-> Null]

\* The wizard of the create modal is rendered while the modal is open, the
\* wizard of the edit modal while it is open and a land is being edited.
Mounted(w) ==
    IF w = "create" THEN createOpen ELSE editOpen /\ editLandId # NullId

\* The wizard states after a render with the given modal flags.
Render(all, cOpen, eOpen, eId) ==
    [w \in Wizards |->
        ModalChildren(IF w = "create" THEN cOpen ELSE eOpen /\ eId # NullId,
                      all[w])]

LandIds == {lands[i].id : i \in 1..Len(lands)}

TypeOK ==
    /\ answers \in [Wizards -> Answers]
    /\ last.op \in {"mount", "select", "goBack", "reset", "complete",
                    "openCreate", "closeCreate", "openEdit", "closeEdit",
                    "saveEdit", "selectLand", "openDelete", "closeDelete",
                    "confirmDelete", "fetchStart", "fetchComplete",
                    "openNutrientInputs", "cancelNutrients", "setTemp",
                    "saveNutrientInputs", "setLocationMode",
                    "setManualLatitude", "setManualLongitude",
                    "handleRecommend", "locationSettled", "requestSettled"}
    /\ last.w \in Wizards
    /\ last.before \in Answers
    /\ last.afterBack \in BOOLEAN
    /\ Len(lands) <= created
    /\ created <= MaxLands
    /\ LandIds \subseteq 1..created
    /\ activeLandId \in (1..created) \cup {NullId}
    /\ editLandId \in (1..created) \cup {NullId}
    /\ createOpen \in BOOLEAN /\ editOpen \in BOOLEAN
    /\ deleteOpen \in BOOLEAN
    /\ landStep \in {"overview", "nutrients"}
    /\ recommending \in BOOLEAN
    /\ locationMode \in {"auto", "manual"}
    /\ run.at \in {"idle", "locating", "requesting"}
    /\ fetch.pending \in BOOLEAN
    /\ navigated \in BOOLEAN
    /\ \A w \in Wizards : ~Mounted(w) => answers[w] = EmptyAnswers

\* The dashboard with one land, created from the answer "no", and both
\* modals opened afterwards: the two wizards are mounted side by side.
BothWizardsOpen ==
    /\ lands = <<newLand(1, Result("Sand", "-"))>>
    /\ activeLandId = 1
    /\ createOpen = TRUE
    /\ editOpen = TRUE
    /\ editLandId = 1
    /\ editNewSoilType = Unset
    /\ InitialView
    /\ lastKnownLocation = FALSE
    /\ db = {newLand(1, Result("Sand", "-"))}
    /\ fetch = NoFetch
    /\ created = 1

\* Two freshly mounted wizards.
Init ==
    /\ answers = [w \in Wizards |-> EmptyAnswers]
    /\ last = NoOp
    /\ BothWizardsOpen

\* Every answer set of the enum domain, reachable or not: the inputs of the
\* pure functions.
InitDomain ==
    /\ answers \in [Wizards -> Answers]
    /\ last = NoOp
    /\ BothWizardsOpen

\* The dashboard once loaded for a user without lands: useState initial
\* values, no modal open.
InitApp ==
    /\ answers = [w \in Wizards |-> EmptyAnswers]
    /\ last = NoOp
    /\ lands = <<>>
    /\ activeLandId = NullId
    /\ createOpen = FALSE
    /\ editOpen = FALSE
    /\ editLandId = NullId
    /\ editNewSoilType = Unset
    /\ InitialView
    /\ lastKnownLocation = FALSE
    /\ db = {}
    /\ fetch = NoFetch
    /\ created = 0

(* Operations of a wizard *)

Select(w, f, v) ==
    /\ Mounted(w)
    /\ answers' = setAnswers(answers, w, selectOption(answers[w], f, v))
    /\ last' = Op("select", w, f, v, Null)
    /\ UNCHANGED dashboard

\* The Back button is rendered on every step but the first, where the
\* function returns at once.
GoBack(w) ==
    /\ Mounted(w)
    /\ answers' = setAnswers(answers, w, goBack(answers[w]))
    /\ last' = Op("goBack", w, "-", "-", Null)
    /\ UNCHANGED dashboard

Reset(w) ==
    /\ Mounted(w)
    /\ answers' = setAnswers(answers, w, reset(answers[w]))
    /\ last' = Op("reset", w, "-", "-", Null)
    /\ UNCHANGED dashboard

\* "Save soil type" of the create wizard: onComplete is handleSaveSoil, which
\* adds the land, makes it active and closes the create modal.
CompleteCreate ==
    /\ Mounted("create")
    /\ SaveRendered(answers["create"])
    /\ created < MaxLands
    /\ LET result == wizardResult(answers["create"])
           id     == randomUUID(created)
       IN  /\ lands' = handleSaveSoil(lands, id, result)
           /\ activeLandId' = id
           /\ created' = id
           /\ createOpen' = FALSE
           /\ db' = dbSet(db, newLand(id, result))
           /\ SetForm(afterRender(Form, activeLandId, id, lands,
                                  handleSaveSoil(lands, id, result)))
           /\ answers' = Render(answers, FALSE, editOpen, editLandId)
           /\ last' = Op("complete", "create", "-", "-", result)
    /\ UNCHANGED <<editOpen, editLandId, editNewSoilType, deleteOpen, fetch,
                   location, recommend>>

\* "Save soil type" of the edit wizard: onComplete is
\* handleEditWizardComplete.
CompleteEdit ==
    /\ Mounted("edit")
    /\ SaveRendered(answers["edit"])
    /\ LET result == wizardResult(answers["edit"])
           after  == handleEditWizardComplete(lands, editLandId, result)
       IN  /\ lands' = after.lands
           /\ editNewSoilType' = after.editNewSoilType
           /\ last' = Op("complete", "edit", "-", "-", result)
    /\ UNCHANGED <<answers, activeLandId, createOpen, editOpen, editLandId,
                   deleteOpen, landView, location, recommend, persistence>>

(* Operations of the dashboard *)

\* onClick={() => setCreateOpen(true)}
OpenCreate ==
    /\ createOpen' = TRUE
    /\ answers' = Render(answers, TRUE, editOpen, editLandId)
    /\ last' = Op("openCreate", "create", "-",
                   IF Mounted("create") THEN "mounted" ELSE "unmounted", Null)
    /\ UNCHANGED <<lands, activeLandId, editOpen, editLandId, editNewSoilType,
                   deleteOpen, landView, location, recommend, persistence>>

\* onClose of the create modal (Escape).
CloseCreate ==
    /\ createOpen
    /\ createOpen' = FALSE
    /\ answers' = Render(answers, FALSE, editOpen, editLandId)
    /\ last' = Op("closeCreate", "create", "-", "-", Null)
    /\ UNCHANGED <<lands, activeLandId, editOpen, editLandId, editNewSoilType,
                   deleteOpen, landView, location, recommend, persistence>>

\* onClick={() => setActiveLandId(land.id)}
SelectLand(id) ==
    /\ id \in LandIds
    /\ activeLandId' = id
    /\ SetForm(afterRender(Form, activeLandId, id, lands, lands))
    /\ last' = Op("selectLand", "edit", "-", "-", Null)
    /\ UNCHANGED <<answers, lands, modals, location, recommend, persistence>>

\* openEditForActive
OpenEdit ==
    /\ activeLandId # NullId
    /\ activeLandId \in LandIds
    /\ editLandId' = activeLandId
    /\ editNewSoilType' = Unset
    /\ editOpen' = TRUE
    /\ answers' = Render(answers, createOpen, TRUE, activeLandId)
    /\ last' = Op("openEdit", "edit", "-",
                   IF Mounted("edit") THEN "mounted" ELSE "unmounted", Null)
    /\ UNCHANGED <<lands, activeLandId, createOpen, deleteOpen, landView,
                   location, recommend, persistence>>

\* Cancel, or onClose of the edit modal: setEditOpen(false).
CloseEdit ==
    /\ editOpen
    /\ editOpen' = FALSE
    /\ answers' = Render(answers, createOpen, FALSE, editLandId)
    /\ last' = Op("closeEdit", "edit", "-", "-", Null)
    /\ UNCHANGED <<lands, activeLandId, createOpen, editLandId,
                   editNewSoilType, deleteOpen, landView, location, recommend,
                   persistence>>

\* "Save changes": handleSaveEdit.
SaveEdit ==
    /\ editOpen
    /\ editLandId # NullId
    /\ lands' = handleSaveEdit(lands, editLandId, editNewSoilType)
    /\ activeLandId' = editLandId
    /\ editOpen' = FALSE
    /\ editLandId' = NullId
    /\ editNewSoilType' = Unset
    /\ db' = dbUpdate(db, editLandId, handleSaveEditUpdates(editNewSoilType))
    /\ SetForm(afterRender(Form, activeLandId, editLandId, lands,
                           handleSaveEdit(lands, editLandId, editNewSoilType)))
    /\ answers' = Render(answers, createOpen, FALSE, NullId)
    /\ last' = Op("saveEdit", "edit", "-", "-", Null)
    /\ UNCHANGED <<createOpen, deleteOpen, fetch, created, location, recommend>>

\* The details card of the active land is rendered: `activeLandId ? ...`,
\* with the land found in lands.
CardRendered == activeLandId # NullId /\ activeLandId \in LandIds

\* openDeleteForActive, from the Delete button of the details card.
OpenDelete ==
    /\ CardRendered
    /\ deleteOpen' = TRUE
    /\ last' = DashOp("openDelete", Nothing)
    /\ UNCHANGED <<answers, lands, activeLandId, createOpen, editOpen,
                   editLandId, editNewSoilType, landView, location, recommend,
                   persistence>>

\* Cancel, or onClose of the delete dialog: setDeleteOpen(false).
CloseDelete ==
    /\ deleteOpen
    /\ deleteOpen' = FALSE
    /\ last' = DashOp("closeDelete", Nothing)
    /\ UNCHANGED <<answers, lands, activeLandId, createOpen, editOpen,
                   editLandId, editNewSoilType, landView, location, recommend,
                   persistence>>

\* The Delete button of the delete dialog: confirmDelete.
ConfirmDelete ==
    /\ deleteOpen
    /\ IF activeLandId = NullId
       THEN UNCHANGED <<lands, activeLandId, deleteOpen, landView, db>>
       ELSE LET remaining == confirmDelete(lands, activeLandId)
                first     == confirmDeleteActive(remaining)
            IN  /\ lands' = remaining
                /\ activeLandId' = first
                /\ deleteOpen' = FALSE
                /\ db' = dbRemove(db, activeLandId)
                /\ SetForm(afterRender(Form, activeLandId, first, lands,
                                       remaining))
    /\ last' = DashOp("confirmDelete",
                      [lands |-> lands, activeLandId |-> activeLandId,
                       deleteOpen |-> deleteOpen, form |-> Form, db |-> db])
    /\ UNCHANGED <<answers, createOpen, editOpen, editLandId, editNewSoilType,
                   location, recommend, fetch, created>>

(* Polling the lands *)

\* fetchLands up to `await get(landsRef)`: the snapshot is taken when the
\* request reaches the database; the rest of fetchLands runs when the answer
\* is back.
FetchStart ==
    /\ ~fetch.pending
    /\ fetch' = [pending |-> TRUE, docs |-> docs(db)]
    /\ last' = DashOp("fetchStart", Nothing)
    /\ UNCHANGED <<answers, lands, activeLandId, modals, landView, location,
                   recommend, db, created>>

\* fetchLands after the await: setLands(docs) and setActiveLandId(updater).
FetchComplete ==
    /\ fetch.pending
    /\ lands' = fetch.docs
    /\ activeLandId' = fetchLandsActive(activeLandId, fetch.docs)
    /\ SetForm(afterRender(Form, activeLandId,
                           fetchLandsActive(activeLandId, fetch.docs),
                           lands, fetch.docs))
    /\ fetch' = NoFetch
    /\ last' = DashOp("fetchComplete",
                      [lands |-> lands, activeLandId |-> activeLandId,
                       form |-> Form])
    /\ UNCHANGED <<answers, modals, location, recommend, db, created>>

Next ==
    \/ \E w \in Wizards, f \in FieldNames : \E v \in Options(f) : Select(w, f, v)
    \/ \E w \in Wizards : GoBack(w)
    \/ \E w \in Wizards : Reset(w)

\* The wizards alone, both mounted, with every option of every question.
Spec == Init /\ [][Next]_vars

SpecDomain == InitDomain /\ [][Next]_vars

\* The options the user picks from in the runs of the whole dashboard: both
\* shortcuts and one three-answer path.
AppOptions(f) ==
    CASE f = "formsBall"    -> {"yes", "no"}
      [] f = "ribbonLength" -> {"none", "1-2"}
      [] f = "feel"         -> {"gritty"}

NextApp ==
    \/ \E w \in Wizards, f \in FieldNames :
            \E v \in AppOptions(f) : Select(w, f, v)
    \/ \E w \in Wizards : GoBack(w)
    \/ \E w \in Wizards : Reset(w)
    \/ CompleteCreate
    \/ CompleteEdit
    \/ OpenCreate
    \/ CloseCreate
    \/ \E id \in 1..MaxLands : SelectLand(id)
    \/ OpenEdit
    \/ CloseEdit
    \/ SaveEdit

\* The dashboard with its two wizards.
SpecApp == InitApp /\ [][NextApp]_vars

(* The soil health form of the active land *)

\* openNutrientInputs, from the button of the overview.
OpenNutrientInputs ==
    /\ CardRendered
    /\ landStep = "overview"
    /\ landStep' = "nutrients"
    /\ last' = DashOp("openNutrientInputs", Nothing)
    /\ UNCHANGED <<answers, lands, activeLandId, modals, tempNitrogen,
                   tempPhosphorus, tempPotassium, tempPH, location, recommend,
                   persistence>>

\* The Cancel button of the form: setLandStep("overview").
CancelNutrients ==
    /\ CardRendered
    /\ landStep = "nutrients"
    /\ landStep' = "overview"
    /\ last' = DashOp("cancelNutrients", Nothing)
    /\ UNCHANGED <<answers, lands, activeLandId, modals, tempNitrogen,
                   tempPhosphorus, tempPotassium, tempPH, location, recommend,
                   persistence>>

\* The option values of the four <select> elements; the dash of the pH
\* ranges is written "-".
SelectOptions(f) ==
    IF f = "pH"
    THEN {"", "Acidic (5.0-5.9)", "Neutral (6.0-7.3)", "Alkaline (7.4-8.5)"}
    ELSE {"", "0", "1", "2", "3", "4"}

\* onChange of the <select> of field f: setTemp...(e.target.value).
SetTemp(f, v) ==
    /\ CardRendered
    /\ landStep = "nutrients"
    /\ v \in SelectOptions(f)
    /\ tempNitrogen' = (IF f = "nitrogen" THEN v ELSE tempNitrogen)
    /\ tempPhosphorus' = (IF f = "phosphorus" THEN v ELSE tempPhosphorus)
    /\ tempPotassium' = (IF f = "potassium" THEN v ELSE tempPotassium)
    /\ tempPH' = (IF f = "pH" THEN v ELSE tempPH)
    /\ last' = DashOp("setTemp", Nothing)
    /\ UNCHANGED <<answers, lands, activeLandId, modals, landStep, location,
                   recommend, persistence>>

\* The Save button of the form: saveNutrientInputs.
SaveNutrientInputs ==
    /\ CardRendered
    /\ landStep = "nutrients"
    /\ LET inputs == nutrientInputs(Form)
           saved  == saveNutrientInputs(lands, activeLandId, inputs)
       IN  /\ lands' = saved
           /\ SetForm(afterRender([Form EXCEPT !.landStep = "overview"],
                                  activeLandId, activeLandId, lands, saved))
           /\ db' = saveNutrientInputsDb(db, activeLandId, inputs)
           /\ last' = DashOp("saveNutrientInputs", inputs)
    /\ UNCHANGED <<answers, activeLandId, modals, location, recommend, fetch,
                   created>>

\* Two lands created from the answer "no", the second one active, no modal
\* open, no refresh in flight.
TwoLands ==
    /\ answers = [w \in Wizards |-> EmptyAnswers]
    /\ last = NoOp
    /\ lands = <<newLand(1, Result("Sand", "-")), newLand(2, Result("Sand", "-"))>>
    /\ activeLandId = 2
    /\ createOpen = FALSE
    /\ editOpen = FALSE
    /\ editLandId = NullId
    /\ editNewSoilType = Unset
    /\ InitialView
    /\ lastKnownLocation = FALSE
    /\ db = {newLand(1, Result("Sand", "-")), newLand(2, Result("Sand", "-"))}
    /\ fetch = NoFetch
    /\ created = 2

\* The inputs the user chooses in the runs of the soil health form.
NutrientOptions(f) ==
    CASE f = "nitrogen" -> {"", "3"}
      [] f = "pH"       -> {"", "Neutral (6.0-7.3)"}

NextNutrients ==
    \/ OpenNutrientInputs
    \/ CancelNutrients
    \/ \E f \in {"nitrogen", "pH"} : \E v \in NutrientOptions(f) : SetTemp(f, v)
    \/ SaveNutrientInputs
    \/ \E id \in 1..MaxLands : SelectLand(id)
    \/ FetchStart
    \/ FetchComplete

\* The soil health form of two lands, with the polling refresh.
SpecNutrients == TwoLands /\ [][NextNutrients]_vars

(* The recommendation *)

\* The overview of the active land, with the location settings and the
\* Recommend button, is rendered until the router leaves the page.
OverviewRendered == CardRendered /\ landStep = "overview" /\ ~navigated

\* onClick={() => setLocationMode(m)}
SetLocationMode(m) ==
    /\ OverviewRendered
    /\ locationMode' = m
    /\ last' = DashOp("setLocationMode", Nothing)
    /\ UNCHANGED <<answers, lands, activeLandId, modals, landView,
                   manualLatitude, manualLongitude, lastKnownLocation,
                   recommend, persistence>>

\* onChange of the latitude input, rendered in manual mode.
SetManualLatitude(v) ==
    /\ OverviewRendered
    /\ locationMode = "manual"
    /\ manualLatitude' = v
    /\ last' = DashOp("setManualLatitude", Nothing)
    /\ UNCHANGED <<answers, lands, activeLandId, modals, landView,
                   locationMode, manualLongitude, lastKnownLocation,
                   recommend, persistence>>

\* onChange of the longitude input, rendered in manual mode.
SetManualLongitude(v) ==
    /\ OverviewRendered
    /\ locationMode = "manual"
    /\ manualLongitude' = v
    /\ last' = DashOp("setManualLongitude", Nothing)
    /\ UNCHANGED <<answers, lands, activeLandId, modals, landView,
                   locationMode, manualLatitude, lastKnownLocation,
                   recommend, persistence>>

\* The position getCurrentLocation() resolves with, and the position kept
\* in window.lastKnownLocation.
CurrentPosition == [latitude |-> Number(407128, 10000),
                    longitude |-> Number(0 - 740060, 10000)]

LastPosition == [latitude |-> Number(41, 1), longitude |-> Number(0 - 74, 1)]

\* The scoring request of a handleRecommend call.
Sent(active, checks, mode, position) ==
    [sent |-> TRUE, mode |-> mode,
     soil |-> handleRecommendSoil(active, checks, position.latitude,
                                  position.longitude)]

\* The Recommend button, disabled while recommending: handleRecommend up to
\* its first await, or to its return.
Recommend ==
    /\ OverviewRendered
    /\ ~recommending
    /\ LET active == find(lands, activeLandId)
           checks == handleRecommendChecks(active)
           manual == handleRecommendManual(manualLatitude, manualLongitude)
           found(set) == [active |-> active, locationError |-> locationError,
                          setRecommending |-> set]
       IN  IF checks = Null
           THEN /\ landStep' = "nutrients"
                /\ request' = NoRequest
                /\ last' = DashOp("handleRecommend", found(FALSE))
                /\ UNCHANGED <<recommending, locationError, run>>
           ELSE /\ last' = DashOp("handleRecommend", found(TRUE))
                /\ UNCHANGED landStep
                /\ IF locationMode = "manual"
                   THEN IF manual.error # ""
                        THEN /\ locationError' = manual.error
                             /\ recommending' = handleRecommendFinally(FALSE)
                             /\ run' = Idle
                             /\ request' = NoRequest
                        ELSE /\ locationError' = ""
                             /\ recommending' = TRUE
                             /\ run' = [at |-> "requesting", active |-> active,
                                        checks |-> checks]
                             /\ request' = Sent(active, checks, "manual", manual)
                   ELSE /\ locationError' = ""
                        /\ recommending' = TRUE
                        /\ run' = [at |-> "locating", active |-> active,
                                   checks |-> checks]
                        /\ request' = NoRequest
    /\ UNCHANGED <<answers, lands, activeLandId, modals, tempNitrogen,
                   tempPhosphorus, tempPotassium, tempPH, location, navigated,
                   persistence>>

\* The promise of getCurrentLocation() settles: handleRecommend goes on to
\* the request, with the current or the last known position, or returns with
\* a location error.
LocationSettled(outcome) ==
    /\ run.at = "locating"
    /\ IF outcome = "resolved" \/ lastKnownLocation
       THEN /\ request' = Sent(run.active, run.checks, "auto",
                               IF outcome = "resolved" THEN CurrentPosition
                               ELSE LastPosition)
            /\ run' = [run EXCEPT !.at = "requesting"]
            /\ UNCHANGED <<recommending, locationError>>
       ELSE /\ locationError' = "Unable to get your location. Please switch to manual mode and enter coordinates."
            /\ recommending' = handleRecommendFinally(FALSE)
            /\ run' = Idle
            /\ UNCHANGED request
    /\ last' = DashOp("locationSettled", [outcome |-> outcome])
    /\ UNCHANGED <<answers, lands, activeLandId, modals, landView, location,
                   navigated, persistence>>

\* The promise of fetch(), or of resp.json(), settles: handleRecommend stores
\* the results and calls router.push, or lands in its catch; then finally.
RequestSettled(outcome) ==
    /\ run.at = "requesting"
    /\ navigated' = (outcome = "resolved")
    /\ recommending' = handleRecommendFinally(recommending)
    /\ run' = Idle
    /\ last' = DashOp("requestSettled", [outcome |-> outcome])
    /\ UNCHANGED <<answers, lands, activeLandId, modals, landView, location,
                   locationError, request, persistence>>

\* The values found in the soil health fields of the active land.
LandValues(f) ==
    CASE f = "nitrogen"   -> {Unset, "", "0", "x2"}
      [] f = "phosphorus" -> {Unset, "3", "3 kg"}
      [] f = "potassium"  -> {Unset, "4", "abc"}
      [] f = "pH"         -> {Unset, "", "Acidic (5.0-5.9)",
                              "Neutral (6.0-7.3)", "Alkaline (7.4-8.5)",
                              "Basic"}

\* The values typed into the coordinate inputs.
LatitudeInputs == {"", "45", "90.5", "-91"}

LongitudeInputs == {"", "-180", "181", "7.25"}

\* One land, loaded from the database and active, shown in the overview.
OneLand ==
    /\ answers = [w \in Wizards |-> EmptyAnswers]
    /\ last = DashOp("mount", Nothing)
    /\ \E n \in LandValues("nitrogen"), p \in LandValues("phosphorus"),
          k \in LandValues("potassium"), c \in LandValues("pH") :
            /\ lands = <<[id |-> 1, soilType |-> "Sand", nitrogen |-> n,
                          phosphorus |-> p, potassium |-> k, pH |-> c]>>
            /\ db = {lands[1]}
            /\ tempNitrogen = orEmpty(lands[1], "nitrogen")
            /\ tempPhosphorus = orEmpty(lands[1], "phosphorus")
            /\ tempPotassium = orEmpty(lands[1], "potassium")
            /\ tempPH = orEmpty(lands[1], "pH")
    /\ activeLandId = 1
    /\ createOpen = FALSE
    /\ editOpen = FALSE
    /\ editLandId = NullId
    /\ editNewSoilType = Unset
    /\ deleteOpen = FALSE
    /\ landStep = "overview"
    /\ recommending = FALSE
    /\ locationMode = "auto"
    /\ manualLatitude = "" /\ manualLongitude = ""
    /\ locationError = ""
    /\ run = Idle
    /\ request = NoRequest
    /\ navigated = FALSE
    /\ lastKnownLocation \in BOOLEAN
    /\ fetch = NoFetch
    /\ created = 1

NextRecommend ==
    \/ \E m \in {"auto", "manual"} : SetLocationMode(m)
    \/ \E v \in LatitudeInputs : SetManualLatitude(v)
    \/ \E v \in LongitudeInputs : SetManualLongitude(v)
    \/ Recommend
    \/ \E outcome \in {"resolved", "rejected"} : LocationSettled(outcome)
    \/ \E outcome \in {"resolved", "rejected"} : RequestSettled(outcome)
    \/ CancelNutrients

\* The recommendation for one land.
SpecRecommend == OneLand /\ [][NextRecommend]_vars

\* The promises handleRecommend awaits settle.
SpecRecommendFair ==
    /\ SpecRecommend
    /\ WF_vars(\E outcome \in {"resolved", "rejected"} : LocationSettled(outcome))
    /\ WF_vars(\E outcome \in {"resolved", "rejected"} : RequestSettled(outcome))

NextLands ==
    \/ OpenCreate
    \/ Select("create", "formsBall", "no")
    \/ CompleteCreate
    \/ \E id \in 1..MaxLands : SelectLand(id)
    \/ OpenEdit
    \/ CloseEdit
    \/ SaveEdit
    \/ OpenDelete
    \/ CloseDelete
    \/ ConfirmDelete
    \/ FetchStart
    \/ FetchComplete

\* The lands of the dashboard, created, edited, deleted and polled; every
\* land is created from the answer "no".
SpecLands == InitApp /\ [][NextLands]_vars

----------------------------------------------------------------------------
(* Properties of the classifier and of the step derivation *)

RibbonForming == {"<1", "1-2", ">2"}

Textures ==
    {"Sand", "Loamy sand", "Sandy loam", "Silt loam", "Loam",
     "Sandy clay loam", "Silty clay loam", "Clay loam",
     "Sandy clay", "Silty clay", "Clay"}

\* The texture column of the truth table, for ribbon-forming soil.
TruthTable(ribbon, feel) ==
    CASE ribbon = "<1"  /\ feel = "gritty"   -> "Sandy loam"
      [] ribbon = "<1"  /\ feel = "smooth"   -> "Silt loam"
      [] ribbon = "<1"  /\ feel = "balanced" -> "Loam"
      [] ribbon = "1-2" /\ feel = "gritty"   -> "Sandy clay loam"
      [] ribbon = "1-2" /\ feel = "smooth"   -> "Silty clay loam"
      [] ribbon = "1-2" /\ feel = "balanced" -> "Clay loam"
      [] ribbon = ">2"  /\ feel = "gritty"   -> "Sandy clay"
      [] ribbon = ">2"  /\ feel = "smooth"   -> "Silty clay"
      [] ribbon = ">2"  /\ feel = "balanced" -> "Clay"

HasTexture(r, t) == r # Null /\ r.texture = t

\* C1: for every answer set over the enum domain, predictSoilTexture returns
\* null if and only if the step derived from that answer set is not 'result'.
C1_NullIffNotResult ==
    \A w \in Wizards :
        (predictSoilTexture(answers[w]) = Null)
            <=> (currentStep(answers[w]) # "result")

\* Both sides of C1 occur: one wizard on its result screen with a prediction,
\* the other on a question with none.
C1_Witness ==
    \E w1, w2 \in Wizards :
        /\ currentStep(answers[w1]) = "result"
        /\ predictSoilTexture(answers[w1]) # Null
        /\ currentStep(answers[w2]) = "feel"
        /\ predictSoilTexture(answers[w2]) = Null

\* C2: predictSoilTexture reproduces the 11-row truth table: no -> Sand;
\* yes+none -> Loamy sand; yes + ribbon '<1', '1-2' or '>2' + feel -> the
\* texture the table lists for that ribbon and feel.
C2_TruthTable ==
    \A w \in Wizards :
        LET a == answers[w]
            p == predictSoilTexture(a)
        IN  /\ a.formsBall = "no" => HasTexture(p, "Sand")
            /\ a.formsBall = "yes" /\ a.ribbonLength = "none"
                   => HasTexture(p, "Loamy sand")
            /\ (a.formsBall = "yes" /\ a.ribbonLength \in RibbonForming
                    /\ a.feel \in FeelAnswer)
                   => HasTexture(p, TruthTable(a.ribbonLength, a.feel))

\* A three-answer row of the table has been classified.
C2_Witness ==
    \E w \in Wizards :
        /\ answers[w] = [formsBall |-> "yes", ribbonLength |-> "1-2",
                         feel |-> "smooth"]
        /\ predictSoilTexture(answers[w]).texture = "Silty clay loam"

\* C3: predictSoilTexture returns null exactly when formsBall is unset, or
\* formsBall=yes and ribbonLength is unset, or formsBall=yes, ribbonLength is
\* '<1', '1-2' or '>2' and feel is unset; for every other answer set it
\* returns one classification result.
C3_NullExactlyWhenInsufficient ==
    \A w \in Wizards :
        LET a == answers[w]
            p == predictSoilTexture(a)
            insufficient ==
                \/ a.formsBall = Unset
                \/ a.formsBall = "yes" /\ a.ribbonLength = Unset
                \/ /\ a.formsBall = "yes"
                   /\ a.ribbonLength \in RibbonForming
                   /\ a.feel = Unset
        IN  /\ insufficient => p = Null
            /\ ~insufficient => /\ p # Null
                                /\ DOMAIN p = {"texture", "explanation"}
                                /\ p.texture \in Textures

\* formsBall=no classifies although later fields hold values, and
\* ribbonLength=none classifies although feel holds a value.
C3_Witness ==
    \E w1, w2 \in Wizards :
        /\ answers[w1].formsBall = "no"
        /\ answers[w1].ribbonLength = Unset
        /\ answers[w1].feel # Unset
        /\ predictSoilTexture(answers[w1]) # Null
        /\ answers[w2].formsBall = "yes"
        /\ answers[w2].ribbonLength = "none"
        /\ answers[w2].feel # Unset
        /\ predictSoilTexture(answers[w2]) # Null

\* C4: the current step is determined by the answer set with the priority
\* formsBall unset -> formsBall; formsBall=no -> result; ribbonLength unset ->
\* ribbonLength; ribbonLength=none -> result; feel unset -> feel; else result.
C4_StepPriority ==
    \A w \in Wizards :
        LET a == answers[w]
            s == currentStep(a)
        IN  /\ a.formsBall = Unset => s = "formsBall"
            /\ a.formsBall = "no" => s = "result"
            /\ a.formsBall = "yes" =>
                /\ a.ribbonLength = Unset => s = "ribbonLength"
                /\ a.ribbonLength = "none" => s = "result"
                /\ a.ribbonLength \in RibbonForming =>
                    /\ a.feel = Unset => s = "feel"
                    /\ a.feel # Unset => s = "result"

\* The priority decides: an earlier field outranks the later fields that
\* are set.
C4_Witness ==
    \E w1, w2 \in Wizards :
        /\ answers[w1].formsBall = "no"
        /\ answers[w1].ribbonLength \in RibbonForming
        /\ currentStep(answers[w1]) = "result"
        /\ answers[w2].formsBall = "yes"
        /\ answers[w2].ribbonLength = Unset
        /\ answers[w2].feel # Unset
        /\ currentStep(answers[w2]) = "ribbonLength"

----------------------------------------------------------------------------
(* Properties of the wizard's navigation *)

\* The position of a field in the order of the questions.
FieldIndex(f) == CHOOSE i \in 1..Len(Fields) : Fields[i] = f

\* The fields in which two answer sets differ.
Changed(a, b) == {f \in FieldNames : a[f] # b[f]}

\* C5: in every reachable state the fields are filled in order: ribbonLength
\* set implies formsBall=yes, feel set implies formsBall=yes and a
\* ribbon-forming ribbonLength; after a goBack that clears a field every
\* later field is unset too.
C5_FilledInOrder ==
    /\ \A w \in Wizards :
        LET a == answers[w]
        IN  /\ a.ribbonLength # Unset => a.formsBall = "yes"
            /\ a.feel # Unset => /\ a.formsBall = "yes"
                                 /\ a.ribbonLength \in RibbonForming
    /\ last.op = "goBack" =>
        \A f \in Changed(last.before, answers[last.w]) :
            \A g \in FieldNames :
                FieldIndex(g) >= FieldIndex(f) => answers[last.w][g] = Unset

\* goBack has cleared an answer that is not the last question's.
C5_Witness ==
    /\ last.op = "goBack"
    /\ last.before.ribbonLength \in RibbonForming
    /\ answers[last.w].ribbonLength = Unset
    /\ answers[last.w].formsBall = "yes"

\* The field the back action is to clear, by the step and the answers.
FieldToClear(a) ==
    CASE currentStep(a) = "result" ->
            IF a.formsBall = "no" THEN "formsBall"
            ELSE IF a.ribbonLength = "none" THEN "ribbonLength"
            ELSE "feel"
      [] currentStep(a) = "feel" -> "ribbonLength"
      [] currentStep(a) = "ribbonLength" -> "formsBall"

\* C6: goBack clears exactly one field chosen by the current step and leaves
\* the other fields unchanged; at the formsBall step it changes nothing.
C6_GoBackClearsOne ==
    last.op = "goBack" =>
        LET b == last.before
            a == answers[last.w]
        IN  IF currentStep(b) = "formsBall"
            THEN a = b
            ELSE /\ b[FieldToClear(b)] # Unset
                 /\ a[FieldToClear(b)] = Unset
                 /\ Changed(b, a) = {FieldToClear(b)}

\* goBack has acted on the question after a ribbon-forming answer.
C6_Witness ==
    /\ last.op = "goBack"
    /\ currentStep(last.before) = "feel"
    /\ answers[last.w].ribbonLength = Unset
    /\ answers[last.w].formsBall = "yes"

\* C7: for every reachable answer set A0 and every answer the wizard offers
\* at A0, applying the answer and then goBack yields A0 again.
C7_GoBackUndoesAnswer ==
    \A w \in Wizards, f \in FieldNames :
        OptionRendered(answers[w], f) =>
            \A v \in Options(f) :
                LET A1 == selectOption(answers[w], f, v)
                IN  /\ A1[f] = v
                    /\ goBack(A1)[f] = Unset
                    /\ goBack(A1) = answers[w]

\* goBack has just undone an answer: the state before it is the current
\* state with one offered option selected.
C7_Witness ==
    /\ last.op = "goBack"
    /\ answers[last.w] # last.before
    /\ \E f \in FieldNames :
        /\ OptionRendered(answers[last.w], f)
        /\ \E v \in Options(f) :
            last.before = selectOption(answers[last.w], f, v)
    /\ currentStep(last.before) = "result"

\* C8: reset yields the empty answer set with step formsBall, and a second
\* reset gives the same state as the first.
C8_ResetEmptiesAndIdempotent ==
    last.op = "reset" =>
        /\ answers[last.w] = EmptyAnswers
        /\ currentStep(answers[last.w]) = "formsBall"
        /\ reset(answers[last.w]) = answers[last.w]

\* reset has cleared a complete answer set.
C8_Witness ==
    /\ last.op = "reset"
    /\ last.before.formsBall = "yes"
    /\ last.before.ribbonLength \in RibbonForming
    /\ last.before.feel # Unset

\* C9: answering a step sets exactly one field, the one the current step
\* asks for, to the chosen value and leaves the other two fields unchanged.
C9_AnswerSetsOneField ==
    last.op = "select" /\ OptionRendered(last.before, last.field) =>
        /\ last.field = currentStep(last.before)
        /\ last.before[last.field] = Unset
        /\ answers[last.w][last.field] = last.value
        /\ Changed(last.before, answers[last.w]) = {last.field}

\* The last question has been answered with the first two answers in place.
C9_Witness ==
    /\ last.op = "select"
    /\ last.field = "feel"
    /\ OptionRendered(last.before, "feel")
    /\ answers[last.w].feel = last.value
    /\ answers[last.w].formsBall = "yes"
    /\ answers[last.w].ribbonLength \in RibbonForming

\* The prerequisite of a field is not met by an answer set.
PrerequisiteUnset(a, f) ==
    \/ f = "ribbonLength" /\ a.formsBall # "yes"
    \/ f = "feel" /\ a.ribbonLength \notin RibbonForming

\* C10: an attempt to set a field whose prerequisite is unset (ribbonLength
\* while formsBall is not yes, feel while ribbonLength is not ribbon-forming)
\* is ignored: the answer set is unchanged.
C10_OutOfOrderIgnored ==
    last.op = "select" /\ PrerequisiteUnset(last.before, last.field) =>
        answers[last.w] = last.before

\* Both kinds of out-of-order attempt have been made and ignored.
C10_Witness ==
    /\ last.op = "select"
    /\ PrerequisiteUnset(last.before, last.field)
    /\ last.field = "feel"
    /\ last.before.formsBall = "yes"
    /\ last.before.ribbonLength = Unset
    /\ answers[last.w] = last.before

----------------------------------------------------------------------------
(* Properties of the progress display and of reachability *)

\* C11: in every reachable wizard state the progress step index is in
\* {1,2,3,4}, with formsBall=1, ribbonLength=2, feel=3, result=4; the
\* shortcut paths (formsBall=no, ribbonLength=none) report 4 like the
\* three-answer paths.
C11_StepIndex ==
    \A w \in Wizards :
        LET a == answers[w]
            s == currentStep(a)
            i == stepIndex(s)
        IN  /\ i \in {1, 2, 3, 4}
            /\ s = "formsBall" => i = 1
            /\ s = "ribbonLength" => i = 2
            /\ s = "feel" => i = 3
            /\ s = "result" => i = 4
            /\ a.formsBall = "no" => i = 4
            /\ a.ribbonLength = "none" => i = 4
            /\ a.feel # Unset => i = 4

\* One wizard went to the result by the one-answer shortcut, the other by
\* three answers; both show step 4.
C11_Witness ==
    \E w1, w2 \in Wizards :
        /\ last.op = "select" /\ last.w = w1
        /\ last.before = EmptyAnswers /\ last.value = "no"
        /\ stepIndex(currentStep(answers[w1])) = 4
        /\ answers[w2].feel # Unset
        /\ stepIndex(currentStep(answers[w2])) = 4

\* The 16 answer sets {}, {no}, {yes}, {yes,none}, {yes,r}, {yes,r,f}.
SixteenAnswerSets ==
    {EmptyAnswers,
     [EmptyAnswers EXCEPT !.formsBall = "no"],
     [EmptyAnswers EXCEPT !.formsBall = "yes"],
     [EmptyAnswers EXCEPT !.formsBall = "yes", !.ribbonLength = "none"]}
    \cup {[formsBall |-> "yes", ribbonLength |-> r, feel |-> Unset] :
            r \in RibbonForming}
    \cup {[formsBall |-> "yes", ribbonLength |-> r, feel |-> f] :
            r \in RibbonForming, f \in FeelAnswer}

\* One round of every operation of the wizard on every answer set of S.
Successors(S) ==
    S \cup UNION {{selectOption(a, f, v) : v \in Options(f)} :
                      a \in S, f \in FieldNames}
      \cup {goBack(a) : a \in S}
      \cup {reset(a) : a \in S}

RECURSIVE Closure(_)
\* The answer sets the operations of the wizard reach from S.
Closure(S) == IF Successors(S) = S THEN S ELSE Closure(Successors(S))

\* C12: the answer sets reachable through answering, goBack and reset are
\* exactly the 16 sets {}, {no}, {yes}, {yes,none}, {yes,r}, {yes,r,f}; in
\* each one at step result the prediction is not null.
C12_SixteenReachable ==
    /\ \A w \in Wizards :
        /\ answers[w] \in SixteenAnswerSets
        /\ currentStep(answers[w]) = "result"
              => predictSoilTexture(answers[w]) # Null
    /\ Closure({EmptyAnswers}) = SixteenAnswerSets
    /\ Cardinality(SixteenAnswerSets) = 16

\* A wizard has reached the result through the last branch of the
\* classifier, the long ribbon.
C12_Witness ==
    /\ last.op = "select"
    /\ last.field = "feel"
    /\ answers[last.w].ribbonLength = ">2"
    /\ answers[last.w].feel = "balanced"
    /\ currentStep(answers[last.w]) = "result"
    /\ predictSoilTexture(answers[last.w]) # Null

\* C13: two wizard instances alive at once hold independent answer sets: an
\* answer, goBack or reset on one instance leaves the other instance's
\* answer set, and so its step, unchanged.
C13_InstancesIndependent ==
    [][last'.op \in {"select", "goBack", "reset"} =>
          \A w \in Wizards \ {last'.w} :
              /\ answers'[w] = answers[w]
              /\ currentStep(answers'[w]) = currentStep(answers[w])]_vars

\* An answer has been given in the create wizard while the edit wizard
\* stands at another, non-initial answer set.
C13_Witness ==
    /\ last.op = "select" /\ last.w = "create"
    /\ answers["create"] # last.before
    /\ answers["edit"] # EmptyAnswers
    /\ answers["edit"] # answers["create"]
    /\ answers["edit"] # last.before

----------------------------------------------------------------------------
(* Properties of the result screen *)

\* C14: the wizard hands a result to onComplete only while its step is
\* result, and the texture and explanation handed over are those
\* predictSoilTexture gives for the answer set at that moment.
C14_EmitsOnlyAtResult ==
    last.op = "complete" =>
        /\ currentStep(last.before) = "result"
        /\ predictSoilTexture(last.before) # Null
        /\ last.result.texture = predictSoilTexture(last.before).texture
        /\ last.result.explanation
              = predictSoilTexture(last.before).explanation
        /\ last.result.answers = last.before

\* The edit wizard has handed over a three-answer classification.
C14_Witness ==
    /\ last.op = "complete" /\ last.w = "edit"
    /\ last.before.feel = "gritty"
    /\ last.result.texture = "Sandy clay loam"
    /\ editNewSoilType = "Sandy clay loam"

\* C15: at step result no answer is accepted; while the wizard stays
\* mounted, the only operations that change its answer set at result are
\* goBack and reset (handing the result over does not change it).
C15_ResultTerminal ==
    [][\A w \in Wizards :
          (Mounted(w) /\ currentStep(answers[w]) = "result") =>
              /\ (last'.op = "select" /\ last'.w = w)
                    => answers'[w] = answers[w]
              /\ (Mounted(w)' /\ answers'[w] # answers[w])
                    => last'.w = w /\ last'.op \in {"goBack", "reset"}]_vars

\* The edit wizard has handed its result over and still shows it.
C15_Witness ==
    /\ last.op = "complete" /\ last.w = "edit"
    /\ Mounted("edit")
    /\ answers["edit"] = last.before
    /\ currentStep(answers["edit"]) = "result"

\* C16: re-answering a step never meets a stale later answer: after an
\* answer formsBall=yes the step is ribbonLength with ribbonLength and feel
\* unset, after a ribbon-forming answer to ribbonLength the step is feel
\* with feel unset.
C16_NoStaleAnswer ==
    last.op = "select" /\ OptionRendered(last.before, last.field) =>
        LET a == answers[last.w]
        IN  /\ last.field = "formsBall" /\ last.value = "yes" =>
                /\ currentStep(a) = "ribbonLength"
                /\ a.ribbonLength = Unset
                /\ a.feel = Unset
            /\ last.field = "ribbonLength" /\ last.value \in RibbonForming =>
                /\ currentStep(a) = "feel"
                /\ a.feel = Unset

\* The ribbon question has been answered again right after a goBack that
\* took the wizard back to it.
C16_Witness ==
    /\ last.op = "select"
    /\ last.afterBack
    /\ last.field = "ribbonLength"
    /\ OptionRendered(last.before, last.field)
    /\ last.value \in RibbonForming
    /\ currentStep(answers[last.w]) = "feel"

\* The answer sets at step result that are filled in order.
TerminalCombinations ==
    {a \in SixteenAnswerSets : currentStep(a) = "result"}

\* C17: the 11 terminal answer combinations yield 11 pairwise distinct
\* textures, each texture always comes with the same explanation, and no two
\* textures share an explanation.
C17_TextureExplanationOneToOne ==
    /\ Cardinality(TerminalCombinations) = 11
    /\ \A a, b \in TerminalCombinations :
          a # b => predictSoilTexture(a).texture # predictSoilTexture(b).texture
    /\ \A w1, w2 \in Wizards :
        LET p1 == predictSoilTexture(answers[w1])
            p2 == predictSoilTexture(answers[w2])
        IN  (p1 # Null /\ p2 # Null) =>
                (p1.texture = p2.texture <=> p1.explanation = p2.explanation)

\* Two answer sets that differ give the same texture, and with it the same
\* explanation.
C17_Witness ==
    /\ answers["create"].formsBall = "no"
    /\ answers["create"].feel = "smooth"
    /\ answers["edit"] = [EmptyAnswers EXCEPT !.formsBall = "no"]
    /\ predictSoilTexture(answers["create"])
          = predictSoilTexture(answers["edit"])

----------------------------------------------------------------------------
(* Properties of the dashboard *)

\* The id and the soil type of every land.
SoilTypes(ls) == [i \in 1..Len(ls) |-> <<ls[i].id, ls[i].soilType>>]

BackendSoilType(t) ==
    CASE t \in {"Sand", "Loamy sand", "Sandy loam"} -> "sandy"
      [] t = "Silt loam" -> "silt"
      [] t = "Loam" -> "loam"
      [] t \in {"Sandy clay loam", "Silty clay loam", "Clay loam",
                "Sandy clay", "Silty clay", "Clay"} -> "clay"

\* C19: every texture the wizard can emit maps to a non-null backend soil
\* type: Sand, Loamy sand, Sandy loam -> sandy; Silt loam -> silt; Loam ->
\* loam; the six textures containing 'clay' -> clay.
C19_BackendSoilType ==
    \A w \in Wizards :
        LET p == predictSoilTexture(answers[w])
        IN  p # Null =>
                /\ mapSoilTypeToBackend(p.texture) # "null"
                /\ mapSoilTypeToBackend(p.texture) = BackendSoilType(p.texture)

\* Textures with two of the searched words are mapped by the first match.
C19_Witness ==
    /\ predictSoilTexture(answers["create"]) # Null
    /\ predictSoilTexture(answers["create"]).texture = "Sandy clay loam"
    /\ mapSoilTypeToBackend("Sandy clay loam") = "clay"
    /\ predictSoilTexture(answers["edit"]) # Null
    /\ predictSoilTexture(answers["edit"]).texture = "Loamy sand"
    /\ mapSoilTypeToBackend("Loamy sand") = "sandy"

\* C20: a wizard that gets mounted, by the opening of its modal, starts at
\* formsBall with no answers; while it stays mounted its answer set changes
\* only by the selection of one option, goBack or reset.
C20_EmptyAtMount ==
    [][\A w \in Wizards :
          /\ (~Mounted(w) /\ Mounted(w)') =>
                /\ answers'[w] = EmptyAnswers
                /\ currentStep(answers'[w]) = "formsBall"
          /\ (Mounted(w) /\ Mounted(w)' /\ answers'[w] # answers[w]) =>
                /\ last'.w = w
                /\ last'.op \in {"select", "goBack", "reset"}
                /\ last'.op = "select" =>
                      answers'[w] = [answers[w] EXCEPT
                                        ![last'.field] = last'.value]]_vars

\* The create modal has been opened again after an opening in which the
\* wizard was answered up to its result and a land saved.
C20_Witness ==
    /\ last.op = "openCreate"
    /\ last.value = "unmounted"
    /\ Len(lands) >= 1
    /\ Mounted("create")
    /\ answers["create"] = EmptyAnswers

----------------------------------------------------------------------------
(* Progress of the wizard *)

\* Some option button is rendered for answer set a, and pressing it changes
\* the answer set.
AnswerEnabled(a) ==
    \E f \in FieldNames :
        /\ OptionRendered(a, f)
        /\ \E v \in Options(f) : selectOption(a, f, v) # a

\* Every run from answer set a that only presses rendered option buttons is
\* on the result screen after at most n answers.
RECURSIVE ReachesResult(_, _)
ReachesResult(a, n) ==
    \/ currentStep(a) = "result"
    \/ /\ n > 0
       /\ AnswerEnabled(a)
       /\ \A f \in FieldNames :
            OptionRendered(a, f) =>
                \A v \in Options(f) : ReachesResult(selectOption(a, f, v), n - 1)

\* C22: the wizard always makes progress and never deadlocks: in every
\* reachable state that is not the result screen at least one answer is
\* enabled, and every run from a reachable state that only answers questions
\* (no goBack, no reset) is on the result screen after at most 3 answers.
C22_Progress ==
    \A w \in Wizards :
        /\ currentStep(answers[w]) # "result" => AnswerEnabled(answers[w])
        /\ ReachesResult(answers[w], 3)

\* A wizard brought back to its first question, from where the longest run
\* takes all three answers.
C22_Witness ==
    \E w \in Wizards :
        /\ last.op \in {"goBack", "reset"} /\ last.w = w
        /\ last.before # EmptyAnswers
        /\ answers[w] = EmptyAnswers
        /\ ~ReachesResult(answers[w], 2)

----------------------------------------------------------------------------
(* Properties of the list of lands *)

Ids(ls) == {ls[i].id : i \in 1..Len(ls)}

DbIds == {r.id : r \in db}

\* The position in ls of the k-th land whose id is not id.
KeptIndex(ls, id, k) ==
    CHOOSE i \in 1..Len(ls) :
        /\ ls[i].id # id
        /\ Cardinality({j \in 1..(i - 1) : ls[j].id # id}) = k - 1

\* C23: in every reachable dashboard state where lands is non-empty and
\* activeLandId is non-null, activeLandId is the id of a land in lands, under
\* any interleaving of create, tab selection, open-edit, save-edit, delete
\* and polling refreshes.
C23_ActiveLandInLands ==
    (Len(lands) > 0 /\ activeLandId # NullId) => activeLandId \in LandIds

\* C24: a land created by handleSaveSoil that is the active land, and that
\* the user has not deleted, is still in the local list and still the
\* active land after a polling refresh that was started before the land was
\* written.
C24_CreatedLandStays ==
    (/\ last.op = "fetchComplete"
     /\ last.value.activeLandId \in Ids(last.value.lands)
     /\ last.value.activeLandId \in DbIds)
        => /\ activeLandId = last.value.activeLandId
           /\ activeLandId \in LandIds

----------------------------------------------------------------------------
(* Properties of the soil health form *)

Temps == <<tempNitrogen, tempPhosphorus, tempPotassium, tempPH>>

\* What the form shows for field f of the land with the given id: the value
\* of the field, blank when the field is unset or there is no such land.
Shown(ls, id, f) ==
    IF \E i \in 1..Len(ls) : ls[i].id = id /\ ls[i][f] # Unset
    THEN (CHOOSE l \in {ls[i] : i \in 1..Len(ls)} : l.id = id)[f]
    ELSE ""

\* C21: a polling refresh of the lands that leaves activeLandId unchanged
\* does not reset the land view: landStep and the four unsaved inputs keep
\* their values.  The inputs change only by the user's typing or when
\* activeLandId changes, and then the view goes to the overview with the
\* values of the new active land.
C21_PollKeepsLandView ==
    [][/\ (last'.op = "fetchComplete" /\ activeLandId' = activeLandId)
            => landView' = landView
       /\ (Temps' # Temps)
            => (last'.op = "setTemp" \/ activeLandId' # activeLandId)
       /\ (activeLandId' # activeLandId /\ activeLandId' # NullId)
            => /\ landStep' = "overview"
               /\ tempNitrogen' = Shown(lands', activeLandId', "nitrogen")
               /\ tempPhosphorus' = Shown(lands', activeLandId', "phosphorus")
               /\ tempPotassium' = Shown(lands', activeLandId', "potassium")
               /\ tempPH' = Shown(lands', activeLandId', "pH")]_vars

\* A refresh has replaced the lands while the form was open with an input
\* that differs from the value of the land, and the form is as it was.
C21_Witness ==
    /\ last.op = "fetchComplete"
    /\ lands # last.value.lands
    /\ activeLandId = last.value.activeLandId
    /\ landStep = "nutrients"
    /\ tempNitrogen = "3"
    /\ Shown(lands, activeLandId, "nitrogen") = ""

\* C25: after saveNutrientInputs the persisted record and the local record
\* of the active land agree on nitrogen, phosphorus, potassium and pH, a
\* field cleared to blank being unset in both.
C25_SavedAgree ==
    last.op = "saveNutrientInputs" =>
        \E r \in db :
            /\ r.id = activeLandId
            /\ \A i \in 1..Len(lands) :
                lands[i].id = activeLandId =>
                    \A f \in NutrientFields : r[f] = lands[i][f]

----------------------------------------------------------------------------
(* Properties of the recommendation *)

\* The value names one of the three pH categories.
NamesCategory(v) ==
    \E c \in {"Acidic", "Neutral", "Alkaline"} : includes(Chars(v), Chars(c))

\* The land has its four soil health fields set, its three nutrients read as
\* integers and its pH names a category.
Ready(land) ==
    /\ \A f \in NutrientFields : land[f] # Unset /\ land[f] # ""
    /\ \A f \in NutrientFields \ {"pH"} : ~parseInt(land[f]).nan
    /\ NamesCategory(land.pH)

\* C26: handleRecommend sends a scoring request only when the active land
\* has nitrogen, phosphorus, potassium and pH all set, the three nutrients
\* parse as integers and the pH category maps to a value; otherwise it sends
\* no request, does not navigate, never sets recommending to true and
\* switches landStep to 'nutrients'.
C26_RequestOnlyWhenReady ==
    /\ (request.sent \/ recommending \/ navigated \/ run # Idle)
            => Ready(find(lands, activeLandId))
    /\ (last.op = "handleRecommend" /\ ~Ready(last.value.active))
            => /\ request = NoRequest
               /\ ~navigated
               /\ ~recommending
               /\ ~last.value.setRecommending
               /\ run = Idle
               /\ landStep = "nutrients"
    /\ request.sent
            => /\ request.soil.nitrogen = parseInt(find(lands, activeLandId).nitrogen)
               /\ request.soil.phosphorus = parseInt(find(lands, activeLandId).phosphorus)
               /\ request.soil.potassium = parseInt(find(lands, activeLandId).potassium)
               /\ request.soil.ph # Null

\* handleRecommend has turned down a land whose fields are all set, for a
\* nutrient that is no integer, and has opened the form.
C26_Witness ==
    /\ last.op = "handleRecommend"
    /\ \A f \in NutrientFields : ~Falsy(last.value.active[f])
    /\ parseInt(last.value.active.potassium).nan
    /\ landStep = "nutrients"
    /\ request = NoRequest

\* C27: every handleRecommend call that sets recommending to true sets it
\* back to false in the end, on every path.
C27_RecommendingEnds == recommending ~> ~recommending

\* handleRecommend waits for the answer to its scoring request with
\* recommending set.
C27_Witness ==
    /\ recommending
    /\ run.at = "requesting"
    /\ request.sent
    /\ request.mode = "auto"
    /\ last.op = "locationSettled"
    /\ last.value.outcome = "rejected"

\* Both manual coordinates read as numbers, the latitude within -90..90 and
\* the longitude within -180..180.
ValidCoordinates(latitude, longitude) ==
    LET lat == parseFloat(latitude)
        lng == parseFloat(longitude)
    IN  /\ ~lat.nan /\ ~lng.nan
        /\ (0 - 90) * lat.scale <= lat.num /\ lat.num <= 90 * lat.scale
        /\ (0 - 180) * lng.scale <= lng.num /\ lng.num <= 180 * lng.scale

\* C28: in manual location mode a scoring request is sent only if both
\* coordinates parse as numbers with -90 <= latitude <= 90 and
\* -180 <= longitude <= 180; otherwise locationError is set to a non-empty
\* message, no request is sent and no navigation happens.  Every
\* handleRecommend run that passes the nutrient checks clears the previous
\* locationError first.
C28_ManualCoordinates ==
    /\ (request.sent /\ request.mode = "manual")
            => /\ ~request.soil.latitude.nan /\ ~request.soil.longitude.nan
               /\ ~Less(request.soil.latitude, 0 - 90)
               /\ ~Greater(request.soil.latitude, 90)
               /\ ~Less(request.soil.longitude, 0 - 180)
               /\ ~Greater(request.soil.longitude, 180)
    /\ (last.op = "handleRecommend" /\ last.value.setRecommending)
            => IF locationMode = "manual"
                    /\ ~ValidCoordinates(manualLatitude, manualLongitude)
               THEN /\ locationError # ""
                    /\ request = NoRequest
                    /\ ~navigated
                    /\ ~recommending
               ELSE /\ locationError = ""
                    /\ locationMode = "manual"
                            => /\ request.sent
                               /\ request.soil.latitude = parseFloat(manualLatitude)
                               /\ request.soil.longitude = parseFloat(manualLongitude)

\* A run with valid manual coordinates has cleared the error of the run
\* before and sent its request.
C28_Witness ==
    /\ last.op = "handleRecommend"
    /\ last.value.setRecommending
    /\ last.value.locationError # ""
    /\ locationMode = "manual"
    /\ locationError = ""
    /\ request.sent
    /\ request.mode = "manual"
    /\ manualLongitude = "-180"

====
